---- MODULE Spec2Model ----
(***************************************************************************)
(* Pass-update web service of apple-walet-passes: the Device / Pass /      *)
(* Registration store and the four device-facing endpoints sketched in     *)
(* loyaltyPass.js (POST register, DELETE unregister, GET list of updatable *)
(* passes, GET updated pass), together with pass creation (stampPass.js)   *)
(* and the push notification of a device (sendApplePushNotification,       *)
(* main.js).                                                               *)
(***************************************************************************)
EXTENDS Integers, FiniteSets, Sequences, TLC

----------------------------------------------------------------------------
(* Bounds of the model *)

\* number of clock ticks
MaxTicks == 2
\* milliseconds the wall clock advances per tick
TickMs == 1500

\* the devices: a deviceLibraryIdentifier with a push token it may present
\* (d1's push token changes from k1 to k2)
Wallets == {<<"d1", "k1">>, <<"d1", "k2">>, <<"d2", "k1">>}
\* the passes: a passTypeIdentifier with a serialNumber
PassKeys == {<<"t1", "s1">>, <<"t2", "s1">>, <<"t1", "s2">>}

\* number of long waits of the wall clock
MaxElapses == 3
\* milliseconds the wall clock advances per long wait (half an hour)
ElapseMs == 1800000
\* the calls of sendApplePushNotification
CallIds == {1, 2}

\* the POST requests the server may handle at the same time
RequestIds == {1, 2, 3}
DeviceLibraryIdentifiers == {w[1] : w \in Wallets}
PassTypeIdentifiers == {k[1] : k \in PassKeys}
SerialNumbers == {k[2] : k \in PassKeys}
AuthenticationTokens == {"a", "b"}

----------------------------------------------------------------------------
(* Environment *)

\* process.env.AUTH_TOKEN: one value per deployment
AUTH_TOKEN == "a"

\* request.headers.get("Authorization") when the header is missing
NoHeader == "<null>"

\* the Authorization header values a client may present
AuthHeaders == {NoHeader} \cup {"ApplePass " \o t : t \in AuthenticationTokens}

\* authenticationToken of a pass that was never created
NotIssued == "<none>"

\* process.env.APPLE_TOPIC in the deployment the README describes: its .env
\* sets PASS_TYPE_IDENTIFIER among others, and does not set APPLE_TOPIC
Undefined == "<undefined>"
APPLE_TOPIC == Undefined

\* the :status of the responses of the gateway: the notification was
\* accepted (200), the device token is no longer active (410)
GatewayStatuses == {200, 410}

----------------------------------------------------------------------------
(* State *)

VARIABLES
  devices,        \* Device table: rows [id, deviceLibraryIdentifier, pushToken]
  passes,         \* Pass table: rows [id, passTypeIdentifier, serialNumber, lastUpdateTag]
  registrations,  \* Registration table: rows [id, deviceId, passId]
  issued,         \* serialNumber -> authenticationToken put into the pass by createPass
  now,            \* wall clock, in milliseconds
  last,           \* the last request and its response
  calls,          \* the calls of sendApplePushNotification, by call number
  creation,       \* the last call of LoyaltyPass.createPass and the pass file
  inflight        \* the POST requests the server is handling, by request number

store == <<devices, passes, registrations>>
vars == <<devices, passes, registrations, issued, now, last, calls, creation, inflight>>

----------------------------------------------------------------------------
(* JavaScript numbers and dates, as far as the endpoints use them.  A time  *)
(* in seconds is kept as whole seconds and thousandths: getTime() / 1000 is *)
(* not rounded.                                                             *)

\* new Date(x).getTime() / 1000 for a date x that is msec milliseconds after the epoch
GetTimeSeconds(msec) == [kind |-> "num", whole |-> msec \div 1000, frac |-> msec % 1000]

NaN == [kind |-> "NaN", whole |-> 0, frac |-> 0]
MinusInfinity == [kind |-> "-Infinity", whole |-> 0, frac |-> 0]

\* a <= b on JavaScript numbers: false when either side is NaN
LessOrEqual(a, b) ==
  IF a.kind = "NaN" \/ b.kind = "NaN" THEN FALSE
  ELSE IF a.kind = "-Infinity" THEN TRUE
  ELSE IF b.kind = "-Infinity" THEN FALSE
  ELSE a.whole < b.whole \/ (a.whole = b.whole /\ a.frac <= b.frac)

\* Math.max(...xs): -Infinity for no arguments, NaN when an argument is NaN
MathMax(xs) ==
  IF xs = {} THEN MinusInfinity
  ELSE IF \E x \in xs : x.kind = "NaN" THEN NaN
  ELSE CHOOSE x \in xs : \A y \in xs : LessOrEqual(y, x)

\* the passesUpdatedSince query parameter: absent, a date string, or a string
\* that new Date() cannot parse
Omitted == [present |-> FALSE, parses |-> FALSE, msec |-> 0]
Unparseable == [present |-> TRUE, parses |-> FALSE, msec |-> 0]
DateString(msec) == [present |-> TRUE, parses |-> TRUE, msec |-> msec]
ClockValues == {k * TickMs : k \in 0..MaxTicks}
SinceValues == {Omitted, Unparseable} \cup {DateString(m) : m \in ClockValues}

\* new Date(passesUpdatedSince).getTime() / 1000
ParseSince(passesUpdatedSince) ==
  IF passesUpdatedSince.parses THEN GetTimeSeconds(passesUpdatedSince.msec) ELSE NaN

----------------------------------------------------------------------------
(* The store's primitives (Devices, Passes, Registrations)                  *)

\* id, the primary key of a row: the code never reads its value, it only tells
\* rows apart, so a row's key is the tuple of the columns it was created from
PrimaryKey(columns) == columns

\* Devices.findOrCreate({deviceLibraryIdentifier, pushToken})
Devices_findOrCreate(deviceLibraryIdentifier, pushToken) ==
  LET found == {d \in devices : /\ d.deviceLibraryIdentifier = deviceLibraryIdentifier
                                /\ d.pushToken = pushToken}
  IN IF found # {}
     THEN [row |-> CHOOSE d \in found : TRUE, isNew |-> FALSE]
     ELSE [row |-> [id |-> PrimaryKey(<<deviceLibraryIdentifier, pushToken>>),
                    deviceLibraryIdentifier |-> deviceLibraryIdentifier,
                    pushToken |-> pushToken],
           isNew |-> TRUE]

\* Passes.findOrCreate({passTypeIdentifier, serialNumber})
Passes_findOrCreate(passTypeIdentifier, serialNumber) ==
  LET found == {p \in passes : /\ p.passTypeIdentifier = passTypeIdentifier
                               /\ p.serialNumber = serialNumber}
  IN IF found # {}
     THEN [row |-> CHOOSE p \in found : TRUE, isNew |-> FALSE]
     ELSE [row |-> [id |-> PrimaryKey(<<passTypeIdentifier, serialNumber>>),
                    passTypeIdentifier |-> passTypeIdentifier,
                    serialNumber |-> serialNumber,
                    lastUpdateTag |-> now],
           isNew |-> TRUE]

\* Registrations.findOrCreate({deviceId, passId})
Registrations_findOrCreate(key) ==
  LET found == {r \in registrations : r.deviceId = key.deviceId /\ r.passId = key.passId}
  IN IF found # {}
     THEN [row |-> CHOOSE r \in found : TRUE, isNew |-> FALSE]
     ELSE [row |-> [id |-> PrimaryKey(<<key.deviceId, key.passId>>),
                    deviceId |-> key.deviceId,
                    passId |-> key.passId],
           isNew |-> TRUE]

\* Registrations.find(deviceLibraryIdentifier, serialNumber): the matching rows;
\* none is a RecordNotFoundError
Registrations_find(deviceLibraryIdentifier, serialNumber) ==
  {r \in registrations :
     /\ \E d \in devices : /\ d.id = r.deviceId
                           /\ d.deviceLibraryIdentifier = deviceLibraryIdentifier
     /\ \E p \in passes : p.id = r.passId /\ p.serialNumber = serialNumber}

\* Devices.find(deviceLibraryIdentifier): the matching rows; none is a
\* RecordNotFoundError
Devices_find(deviceLibraryIdentifier) ==
  {d \in devices : d.deviceLibraryIdentifier = deviceLibraryIdentifier}

\* Registrations.delete(id): the Registration table without that row
Registrations_delete(id) == {r \in registrations : r.id # id}

\* Devices.delete(id): the Device table without that row ...
Devices_delete(id) == {d \in devices : d.id # id}

\* ... and the Registration table after the cascade of Devices.delete(id)
Devices_deleteCascade(id) == {r \in registrations : r.deviceId # id}

\* Passes.find(deviceLibraryIdentifier, passTypeIdentifier): the passes of
\* that type registered to the device
Passes_findForDevice(deviceLibraryIdentifier, passTypeIdentifier) ==
  {p \in passes :
     /\ p.passTypeIdentifier = passTypeIdentifier
     /\ \E r \in registrations :
          /\ r.passId = p.id
          /\ \E d \in devices : /\ d.id = r.deviceId
                                /\ d.deviceLibraryIdentifier = deviceLibraryIdentifier}

\* Passes.find(serialNumber): the matching rows; none is a RecordNotFoundError
Passes_find(serialNumber) == {p \in passes : p.serialNumber = serialNumber}

----------------------------------------------------------------------------
(* Requests and responses *)

NoText == "-"
NoNumber == [kind |-> "none", whole |-> 0, frac |-> 0]

\* a request, answered with a status, a message and (for the list of
\* updatable passes) a body {serialNumbers, lastUpdated}
Response(op, deviceLibraryIdentifier, passTypeIdentifier, serialNumber, pushToken, authHeader, passesUpdatedSince, status, message, serialNumbers, lastUpdated) ==
  [op |-> op,
   deviceLibraryIdentifier |-> deviceLibraryIdentifier,
   passTypeIdentifier |-> passTypeIdentifier,
   serialNumber |-> serialNumber,
   pushToken |-> pushToken,
   authHeader |-> authHeader,
   passesUpdatedSince |-> passesUpdatedSince,
   status |-> status,
   message |-> message,
   serialNumbers |-> serialNumbers,
   lastUpdated |-> lastUpdated]

\* a step that is no request
NoRequest(op) ==
  Response(op, NoText, NoText, NoText, NoText, NoText, Omitted, 0, NoText, {}, NoNumber)

\* a check that accepts every credential that is present
Authorized_anyCredential(authHeader) == authHeader # NoHeader

\* authHeader !== `ApplePass ${process.env.AUTH_TOKEN}` is false
Authorized(authHeader) == authHeader = "ApplePass " \o AUTH_TOKEN

\* a call of sendApplePushNotification that has not been made:
\*   pc         where the async function is: "idle", awaiting "connectPromise",
\*              awaiting "responsePromise", "returned" or "thrown"
\*   path       the :path header, iat the iat claim of the signed provider token
\*   session    the http2 client: "none", "connecting", "open", "closed"
\*   stream     the request: "none", "open", "closed" (req.close() was called),
\*              "destroyed" (it emits no further event)
\*   responded, ended   the request has emitted 'response', 'end'
\*   error      the error the function threw
\*   requests   the requests the call has sent to the gateway
\*   method, pushType, topic   the headers :method, apns-push-type, apns-topic
\*   status     the :status of the response of the gateway, 0 before it
NotCalled ==
  [pc |-> "idle", path |-> NoText, iat |-> 0, session |-> "none", stream |-> "none",
   responded |-> FALSE, ended |-> FALSE, error |-> NoText, requests |-> 0,
   method |-> NoText, pushType |-> NoText, topic |-> NoText, status |-> 0]

----------------------------------------------------------------------------
(* LoyaltyPass.createPass(serialNumber, loyaltyPassProperties), in the two  *)
(* versions of the class: the inputs of a call and what it leaves behind    *)

PassTypeEnum == [STAMPS |-> "<stamps>", POINTS |-> "<points>", SIMPLE |-> "<simple>"]

\* the values of loyaltyPassProperties.passType, authenticationToken,
\* backgroundColor (a string or nothing) and points
PassTypes == {PassTypeEnum.STAMPS, PassTypeEnum.POINTS, PassTypeEnum.SIMPLE}
Null == "<null>"
BackgroundColors == {Null, "#000000"}
PointsValues == {0, 100}
LoyaltyPassProperties ==
  [authenticationToken : AuthenticationTokens, passType : PassTypes,
   backgroundColor : BackgroundColors, points : PointsValues]

\* the two versions of class LoyaltyPass
Versions == {1, 2}

\* a field of a pass: {key, label: "", value}
Field(key, value) == [key |-> key, value |-> value]

\* YourPassName.pkpass before any pass was written
NoFile ==
  [serialNumber |-> NoText, authenticationToken |-> NoText,
   backgroundColor |-> NoText, auxiliaryFields |-> <<>>]

\* no call of LoyaltyPass.createPass was made:
\*   version, serialNumber, properties   the class and the arguments of the call
\*   outcome   "none", "written" (the call returned), or the error it threw
\*   file      the content of YourPassName.pkpass
NotCreated ==
  [version |-> 0, serialNumber |-> NoText,
   properties |-> [authenticationToken |-> NoText, passType |-> NoText,
                   backgroundColor |-> Null, points |-> 0],
   outcome |-> "none", file |-> NoFile]

----------------------------------------------------------------------------
(* A POST request in the server, between its awaits *)

\* the rows a request holds before it has found or created them
NoDevice == [id |-> <<NoText, NoText>>, deviceLibraryIdentifier |-> NoText, pushToken |-> NoText]
NoPass == [id |-> <<NoText, NoText>>, passTypeIdentifier |-> NoText, serialNumber |-> NoText, lastUpdateTag |-> 0]

\* a request that was not received:
\*   pc   "idle", before the await of "Devices", "Passes" or "Registrations"
\*        .findOrCreate, or "responded"
\*   device, pass   the rows the first two awaits gave
\*   status   of the response, 0 before it
NotReceived ==
  [pc |-> "idle", deviceLibraryIdentifier |-> NoText, passTypeIdentifier |-> NoText,
   serialNumber |-> NoText, pushToken |-> NoText, authHeader |-> NoText,
   device |-> NoDevice, pass |-> NoPass, status |-> 0]

----------------------------------------------------------------------------
(* Initial state: empty tables, no pass created, no notification sent *)

Init ==
  /\ devices = {}
  /\ passes = {}
  /\ registrations = {}
  /\ issued = [s \in SerialNumbers |-> NotIssued]
  /\ now = 0
  /\ last = NoRequest("init")
  /\ calls = [id \in CallIds |-> NotCalled]
  /\ creation = NotCreated
  /\ inflight = [r \in RequestIds |-> NotReceived]

----------------------------------------------------------------------------
(* Pass creation *)

\* StampPass.createPass(serialNumber, stampPassProperties): the pass carries
\* serialNumber and stampPassProperties.authenticationToken
createPass(serialNumber, authenticationToken) ==
  /\ issued' = [issued EXCEPT ![serialNumber] = authenticationToken]
  /\ last' = NoRequest("createPass")
  /\ UNCHANGED <<devices, passes, registrations, now, calls, creation, inflight>>

\* pass.auxiliaryFields after the pushes of version 1: accountId, and for
\* PassTypeEnum.POINTS the points field with its fixed text
AuxiliaryFields(properties) ==
  <<Field("accountId", "SQ-12345A")>> \o
  (IF properties.passType = PassTypeEnum.POINTS
   THEN <<Field("points", "Consulta tus puntos en tienda")>>
   ELSE <<>>)

\* the error a call throws before it writes the file, or "written":
\* axios.get rejects when the logo cannot be fetched; version 2 names its
\* parameter loyaltyPassProperties and reads LoyaltyPassProperties.points in
\* the POINTS branch, a name that is bound to nothing there
CreateOutcome(version, properties, logoFetched) ==
  IF ~logoFetched THEN "AxiosError"
  ELSE IF version = 2 /\ properties.passType = PassTypeEnum.POINTS THEN "ReferenceError"
  ELSE "written"

\* LoyaltyPass.createPass: the pass is built from the model and the
\* properties, and fs.writeFileSync("YourPassName.pkpass", bufferPass) is the
\* last statement; a call that throws leaves the file as it was
LoyaltyPass_createPass(version, serialNumber, properties, logoFetched) ==
  LET outcome == CreateOutcome(version, properties, logoFetched)
      bufferPass ==
        [serialNumber |-> serialNumber,
         authenticationToken |-> properties.authenticationToken,
         backgroundColor |-> IF properties.backgroundColor = Null
                             THEN "#ffffff" ELSE properties.backgroundColor,
         auxiliaryFields |-> AuxiliaryFields(properties)]
  IN /\ creation' = [version |-> version, serialNumber |-> serialNumber,
                     properties |-> properties, outcome |-> outcome,
                     file |-> IF outcome = "written" THEN bufferPass ELSE creation.file]
     /\ UNCHANGED <<devices, passes, registrations, issued, now, last, calls, inflight>>

----------------------------------------------------------------------------
(* Device registration: POST /v1/devices/{id}/registrations/{type}/{serial}  *)

\* a key that takes both ids from the device
RegistrationKey_deviceTwice(device, pass) ==
  [deviceId |-> device.id, passId |-> device.id]

\* {deviceId: device.id, passId: pass.id}
RegistrationKey(device, pass) == [deviceId |-> device.id, passId |-> pass.id]

\* status: registration.isNew ? 201 : 200
RegistrationStatus(registration) == IF registration.isNew THEN 201 ELSE 200

\* message: registration.isNew ? "Registration created" : "Registration exists"
RegistrationMessage(registration) ==
  IF registration.isNew THEN "Registration created" ELSE "Registration exists"

\* a registration that writes the Pass row anew, with an empty lastUpdateTag,
\* instead of finding it
POST_recreatesPass(deviceLibraryIdentifier, passTypeIdentifier, serialNumber, pushToken, authHeader) ==
  IF ~Authorized(authHeader)
  THEN /\ last' = Response("POST", deviceLibraryIdentifier, passTypeIdentifier,
                           serialNumber, pushToken, authHeader, Omitted,
                           401, "Unauthorized", {}, NoNumber)
       /\ UNCHANGED <<devices, passes, registrations, issued, now, calls, creation, inflight>>
  ELSE LET device == Devices_findOrCreate(deviceLibraryIdentifier, pushToken)
           pass == [Passes_findOrCreate(passTypeIdentifier, serialNumber)
                      EXCEPT !.row.lastUpdateTag = 0]
           registration ==
             Registrations_findOrCreate(RegistrationKey(device.row, pass.row))
       IN /\ devices' = devices \cup {device.row}
          /\ passes' = {p \in passes : p.id # pass.row.id} \cup {pass.row}
          /\ registrations' = registrations \cup {registration.row}
          /\ last' = Response("POST", deviceLibraryIdentifier, passTypeIdentifier,
                              serialNumber, pushToken, authHeader, Omitted,
                              RegistrationStatus(registration),
                              RegistrationMessage(registration), {}, NoNumber)
          /\ UNCHANGED <<issued, now, calls, creation, inflight>>

\* a registration that goes on to notify the device it has registered
POST_notifies(deviceLibraryIdentifier, passTypeIdentifier, serialNumber, pushToken, authHeader) ==
  IF ~Authorized(authHeader)
  THEN /\ last' = Response("POST", deviceLibraryIdentifier, passTypeIdentifier,
                           serialNumber, pushToken, authHeader, Omitted,
                           401, "Unauthorized", {}, NoNumber)
       /\ UNCHANGED <<devices, passes, registrations, issued, now, calls, creation, inflight>>
  ELSE LET device == Devices_findOrCreate(deviceLibraryIdentifier, pushToken)
           pass == Passes_findOrCreate(passTypeIdentifier, serialNumber)
           registration ==
             Registrations_findOrCreate(RegistrationKey(device.row, pass.row))
       IN /\ devices' = devices \cup {device.row}
          /\ passes' = passes \cup {pass.row}
          /\ registrations' = registrations \cup {registration.row}
          /\ calls' = [id \in CallIds |->
                         IF calls[id].pc = "idle"
                         THEN [calls[id] EXCEPT !.pc = "connectPromise",
                                                !.path = "/3/device/" \o pushToken,
                                                !.session = "connecting"]
                         ELSE calls[id]]
          /\ last' = Response("POST", deviceLibraryIdentifier, passTypeIdentifier,
                              serialNumber, pushToken, authHeader, Omitted,
                              RegistrationStatus(registration),
                              RegistrationMessage(registration), {}, NoNumber)
          /\ UNCHANGED <<issued, now, creation, inflight>>

POST(deviceLibraryIdentifier, passTypeIdentifier, serialNumber, pushToken, authHeader) ==
  IF ~Authorized(authHeader)
  THEN /\ last' = Response("POST", deviceLibraryIdentifier, passTypeIdentifier,
                           serialNumber, pushToken, authHeader, Omitted,
                           401, "Unauthorized", {}, NoNumber)
       /\ UNCHANGED <<devices, passes, registrations, issued, now, calls, creation, inflight>>
  ELSE LET device == Devices_findOrCreate(deviceLibraryIdentifier, pushToken)
           pass == Passes_findOrCreate(passTypeIdentifier, serialNumber)
           registration ==
             Registrations_findOrCreate(RegistrationKey(device.row, pass.row))
       IN /\ devices' = devices \cup {device.row}
          /\ passes' = passes \cup {pass.row}
          /\ registrations' = registrations \cup {registration.row}
          /\ last' = Response("POST", deviceLibraryIdentifier, passTypeIdentifier,
                              serialNumber, pushToken, authHeader, Omitted,
                              RegistrationStatus(registration),
                              RegistrationMessage(registration), {}, NoNumber)
          /\ UNCHANGED <<issued, now, calls, creation, inflight>>

\* The same handler step by step, for requests that the server handles at
\* the same time: a request gives way to the others at each of its awaits.

\* up to the first await: the credential is checked
POST_request(r, deviceLibraryIdentifier, passTypeIdentifier, serialNumber, pushToken, authHeader) ==
  /\ inflight[r].pc = "idle"
  /\ inflight' = [inflight EXCEPT ![r] =
       [@ EXCEPT !.deviceLibraryIdentifier = deviceLibraryIdentifier,
                 !.passTypeIdentifier = passTypeIdentifier,
                 !.serialNumber = serialNumber,
                 !.pushToken = pushToken,
                 !.authHeader = authHeader,
                 !.pc = IF Authorized(authHeader) THEN "Devices" ELSE "responded",
                 !.status = IF Authorized(authHeader) THEN 0 ELSE 401]]
  /\ last' = IF Authorized(authHeader) THEN last
             ELSE Response("POST", deviceLibraryIdentifier, passTypeIdentifier,
                           serialNumber, pushToken, authHeader, Omitted,
                           401, "Unauthorized", {}, NoNumber)
  /\ UNCHANGED <<devices, passes, registrations, issued, now, calls, creation>>

\* const device = await Devices.findOrCreate({deviceLibraryIdentifier, pushToken})
POST_device(r) ==
  /\ inflight[r].pc = "Devices"
  /\ LET device == Devices_findOrCreate(inflight[r].deviceLibraryIdentifier,
                                        inflight[r].pushToken)
     IN /\ devices' = devices \cup {device.row}
        /\ inflight' = [inflight EXCEPT ![r] =
                          [@ EXCEPT !.device = device.row, !.pc = "Passes"]]
  /\ UNCHANGED <<passes, registrations, issued, now, last, calls, creation>>

\* const pass = await Passes.findOrCreate({passTypeIdentifier, serialNumber})
POST_pass(r) ==
  /\ inflight[r].pc = "Passes"
  /\ LET pass == Passes_findOrCreate(inflight[r].passTypeIdentifier,
                                     inflight[r].serialNumber)
     IN /\ passes' = passes \cup {pass.row}
        /\ inflight' = [inflight EXCEPT ![r] =
                          [@ EXCEPT !.pass = pass.row, !.pc = "Registrations"]]
  /\ UNCHANGED <<devices, registrations, issued, now, last, calls, creation>>

\* const registration = await Registrations.findOrCreate({deviceId, passId}),
\* and the response
POST_registration(r) ==
  /\ inflight[r].pc = "Registrations"
  /\ LET registration ==
           Registrations_findOrCreate(RegistrationKey(inflight[r].device,
                                                      inflight[r].pass))
     IN /\ registrations' = registrations \cup {registration.row}
        /\ inflight' = [inflight EXCEPT ![r] =
                          [@ EXCEPT !.pc = "responded",
                                    !.status = RegistrationStatus(registration)]]
        /\ last' = Response("POST", inflight[r].deviceLibraryIdentifier,
                            inflight[r].passTypeIdentifier, inflight[r].serialNumber,
                            inflight[r].pushToken, inflight[r].authHeader, Omitted,
                            RegistrationStatus(registration),
                            RegistrationMessage(registration), {}, NoNumber)
  /\ UNCHANGED <<devices, passes, issued, now, calls, creation>>

----------------------------------------------------------------------------
(* Device unregistration: DELETE /v1/devices/{id}/registrations/{type}/{serial} *)

DELETE(deviceLibraryIdentifier, passTypeIdentifier, serialNumber, authHeader) ==
  IF ~Authorized(authHeader)
  THEN /\ last' = Response("DELETE", deviceLibraryIdentifier, passTypeIdentifier,
                           serialNumber, NoText, authHeader, Omitted,
                           401, "Unauthorized", {}, NoNumber)
       /\ UNCHANGED <<devices, passes, registrations, issued, now, calls, creation, inflight>>
  ELSE IF Registrations_find(deviceLibraryIdentifier, serialNumber) # {}
  THEN \* the registration is found: delete it
       \E registration \in Registrations_find(deviceLibraryIdentifier, serialNumber) :
         /\ registrations' = Registrations_delete(registration.id)
         /\ last' = Response("DELETE", deviceLibraryIdentifier, passTypeIdentifier,
                             serialNumber, NoText, authHeader, Omitted,
                             200, "Registration deleted successfully", {}, NoNumber)
         /\ UNCHANGED <<devices, passes, issued, now, calls, creation, inflight>>
  ELSE IF Devices_find(deviceLibraryIdentifier) # {}
  THEN \* RecordNotFoundError: delete the device
       \E device \in Devices_find(deviceLibraryIdentifier) :
         /\ devices' = Devices_delete(device.id)
         /\ registrations' = Devices_deleteCascade(device.id)
         /\ last' = Response("DELETE", deviceLibraryIdentifier, passTypeIdentifier,
                             serialNumber, NoText, authHeader, Omitted,
                             200, "Device deleted successfully", {}, NoNumber)
         /\ UNCHANGED <<passes, issued, now, calls, creation, inflight>>
  ELSE \* RecordNotFoundError twice
       /\ last' = Response("DELETE", deviceLibraryIdentifier, passTypeIdentifier,
                           serialNumber, NoText, authHeader, Omitted,
                           200, "No registration or device found", {}, NoNumber)
       /\ UNCHANGED <<devices, passes, registrations, issued, now, calls, creation, inflight>>

----------------------------------------------------------------------------
(* List of updatable passes:                                                *)
(* GET /v1/devices/{id}/registrations/{type}?passesUpdatedSince={tag}       *)

\* passes.map(pass => pass.serialNumber)
SerialNumbersOf(found) == {p.serialNumber : p \in found}

\* the earliest update time instead of the latest
LastUpdatedOf_earliest(found) ==
  LET xs == {GetTimeSeconds(p.lastUpdateTag) : p \in found}
  IN IF xs = {} THEN MinusInfinity
     ELSE CHOOSE x \in xs : \A y \in xs : LessOrEqual(x, y)

\* Math.max(...passes.map(pass => new Date(pass.lastUpdateTag).getTime() / 1000))
LastUpdatedOf(found) == MathMax({GetTimeSeconds(p.lastUpdateTag) : p \in found})

\* passesUpdatedSince is given and lastUpdated <= previousUpdate
NoUpdates(passesUpdatedSince, lastUpdated) ==
  /\ passesUpdatedSince.present
  /\ LessOrEqual(lastUpdated, ParseSince(passesUpdatedSince))

\* lastUpdated.toString(): the decimal text whole.frac, "-Infinity" or "NaN"
NumberToString(n) == <<n.kind, n.whole, n.frac>>

GETRegistrations(deviceLibraryIdentifier, passTypeIdentifier, passesUpdatedSince, authHeader) ==
  /\ UNCHANGED <<devices, passes, registrations, issued, now, calls, creation, inflight>>
  /\ IF ~Authorized(authHeader)
     THEN last' = Response("GETRegistrations", deviceLibraryIdentifier,
                           passTypeIdentifier, NoText, NoText, authHeader,
                           passesUpdatedSince, 401, "Unauthorized", {}, NoNumber)
     ELSE LET found == Passes_findForDevice(deviceLibraryIdentifier, passTypeIdentifier)
              serialNumbers == SerialNumbersOf(found)
              lastUpdated == LastUpdatedOf(found)
          IN IF NoUpdates(passesUpdatedSince, lastUpdated)
             THEN last' = Response("GETRegistrations", deviceLibraryIdentifier,
                                   passTypeIdentifier, NoText, NoText, authHeader,
                                   passesUpdatedSince, 204, NoText, {}, NoNumber)
             ELSE last' = Response("GETRegistrations", deviceLibraryIdentifier,
                                   passTypeIdentifier, NoText, NoText, authHeader,
                                   passesUpdatedSince, 200, NoText, serialNumbers,
                                   NumberToString(lastUpdated))

----------------------------------------------------------------------------
(* Updated pass: GET /v1/passes/{type}/{serial}                             *)

\* a fetch that stamps the passes it delivers with the time of the fetch
GETPass_touches(passTypeIdentifier, serialNumber, authHeader, fetched) ==
  /\ UNCHANGED <<devices, registrations, issued, now, calls, creation, inflight>>
  /\ IF ~Authorized(authHeader)
     THEN /\ last' = Response("GETPass", NoText, passTypeIdentifier, serialNumber, NoText,
                              authHeader, Omitted, 401, "Unauthorized", {}, NoNumber)
          /\ passes' = passes
     ELSE IF Passes_find(serialNumber) # {} /\ fetched
     THEN /\ last' = Response("GETPass", NoText, passTypeIdentifier, serialNumber, NoText,
                              authHeader, Omitted, 200, "application/vnd.apple.pkpass",
                              {}, NoNumber)
          /\ passes' = {IF p.serialNumber = serialNumber
                        THEN [p EXCEPT !.lastUpdateTag = now] ELSE p : p \in passes}
     ELSE /\ last' = Response("GETPass", NoText, passTypeIdentifier, serialNumber, NoText,
                              authHeader, Omitted, 500, "Internal Server Error",
                              {}, NoNumber)
          /\ passes' = passes

\* fetched is whether fetch(pass.url) delivers the stored pass file
GETPass(passTypeIdentifier, serialNumber, authHeader, fetched) ==
  /\ UNCHANGED <<devices, passes, registrations, issued, now, calls, creation, inflight>>
  /\ IF ~Authorized(authHeader)
     THEN last' = Response("GETPass", NoText, passTypeIdentifier, serialNumber, NoText,
                           authHeader, Omitted, 401, "Unauthorized", {}, NoNumber)
     ELSE IF Passes_find(serialNumber) # {} /\ fetched
     THEN last' = Response("GETPass", NoText, passTypeIdentifier, serialNumber, NoText,
                           authHeader, Omitted, 200, "application/vnd.apple.pkpass",
                           {}, NoNumber)
     ELSE \* Passes.find or fetch threw
          last' = Response("GETPass", NoText, passTypeIdentifier, serialNumber, NoText,
                           authHeader, Omitted, 500, "Internal Server Error",
                           {}, NoNumber)

----------------------------------------------------------------------------
(* Time and content changes *)

\* the wall clock (Date.now()) advances
Tick ==
  /\ now < MaxTicks * TickMs
  /\ now' = now + TickMs
  /\ last' = NoRequest("Tick")
  /\ UNCHANGED <<devices, passes, registrations, issued, calls, creation, inflight>>

\* the content of a pass changes: its lastUpdateTag becomes the current time
ContentChange(pass) ==
  /\ pass.lastUpdateTag < now
  /\ passes' = (passes \ {pass}) \cup {[pass EXCEPT !.lastUpdateTag = now]}
  /\ last' = NoRequest("ContentChange")
  /\ UNCHANGED <<devices, registrations, issued, now, calls, creation, inflight>>

----------------------------------------------------------------------------
(* Push notifications: sendApplePushNotification(deviceToken, payload).     *)
(* The function runs to its first await, and from then on in the handlers   *)
(* of the events of the http2 session (client) and of the request (req).    *)
(* The request's timeout (10000 ms without activity) is an event that may   *)
(* happen while the request is open.  An http2 request emits no 'socket'    *)
(* event, so the socket handlers are never installed.                       *)

\* `/3/device/${deviceToken}`
DevicePath(deviceToken) == "/3/device/" \o deviceToken

\* Math.floor(Date.now() / 1000)
IssuedAt(msec) == msec \div 1000

\* resolve() of responsePromise: the awaiting function returns; a promise
\* that is settled stays as it is
Resolve(call) ==
  IF call.pc = "responsePromise" THEN [call EXCEPT !.pc = "returned"] ELSE call

\* a rejection that replaces an outcome that was already reported
Reject_overrides(call, error) == [call EXCEPT !.pc = "thrown", !.error = error]

\* reject(error) of responsePromise: the awaiting function throws error
Reject(call, error) ==
  IF call.pc = "responsePromise"
  THEN [call EXCEPT !.pc = "thrown", !.error = error]
  ELSE call

\* the function up to `await connectPromise`: the token is signed, the
\* headers are built, the session is being connected
sendApplePushNotification(id, deviceToken) ==
  /\ calls[id].pc = "idle"
  /\ calls' = [calls EXCEPT ![id] = [@ EXCEPT !.pc = "connectPromise",
                                                !.path = DevicePath(deviceToken),
                                                !.iat = IssuedAt(now),
                                                !.method = "POST",
                                                !.pushType = "background",
                                                !.topic = APPLE_TOPIC,
                                                !.session = "connecting"]]
  /\ UNCHANGED <<devices, passes, registrations, issued, now, last, creation, inflight>>

\* client 'connect': connectPromise resolves, the request is sent and
\* responsePromise installs the request's handlers and its timeout
client_connect(id) ==
  /\ calls[id].pc = "connectPromise"
  /\ calls[id].session = "connecting"
  /\ calls' = [calls EXCEPT ![id] = [@ EXCEPT !.pc = "responsePromise",
                                                !.session = "open",
                                                !.stream = "open",
                                                !.requests = @ + 1]]
  /\ UNCHANGED <<devices, passes, registrations, issued, now, last, creation, inflight>>

\* client 'error': the session is destroyed with an error, which is logged;
\* while connecting connectPromise rejects, afterwards the open request
\* emits 'error' and responsePromise rejects
client_error(id) ==
  /\ calls[id].session \in {"connecting", "open"}
  /\ calls' = [calls EXCEPT ![id] =
       IF @.pc = "connectPromise"
       THEN [@ EXCEPT !.pc = "thrown", !.error = "transport error",
                      !.session = "closed"]
       ELSE [Reject(@, "transport error") EXCEPT
               !.session = "closed",
               !.stream = IF @ \in {"open", "closed"} THEN "destroyed" ELSE @]]
  /\ UNCHANGED <<devices, passes, registrations, issued, now, last, creation, inflight>>

\* req 'response', with the :status of responseHeaders: resolve(); the
\* handler does not read responseHeaders
req_response(id, status) ==
  /\ calls[id].stream = "open"
  /\ ~calls[id].responded
  /\ calls' = [calls EXCEPT ![id] =
                 [Resolve(@) EXCEPT !.responded = TRUE, !.status = status]]
  /\ UNCHANGED <<devices, passes, registrations, issued, now, last, creation, inflight>>

\* req 'end', after the response or after req.close(): client.close()
req_end(id) ==
  /\ \/ calls[id].stream = "open" /\ calls[id].responded
     \/ calls[id].stream = "closed"
  /\ ~calls[id].ended
  /\ calls' = [calls EXCEPT ![id] = [@ EXCEPT !.ended = TRUE, !.session = "closed"]]
  /\ UNCHANGED <<devices, passes, registrations, issued, now, last, creation, inflight>>

\* req 'error' (the request alone fails, the session stays): the error is
\* logged and responsePromise rejects; a request destroyed with an error
\* emits no 'end'
req_error(id) ==
  /\ calls[id].stream = "open"
  /\ calls' = [calls EXCEPT ![id] =
                 [Reject(@, "transport error") EXCEPT !.stream = "destroyed"]]
  /\ UNCHANGED <<devices, passes, registrations, issued, now, last, creation, inflight>>

\* the callback of req.setTimeout(10000, ...): req.close() and
\* reject(new Error("Request timed out"))
req_timeout(id) ==
  /\ calls[id].stream = "open"
  /\ calls' = [calls EXCEPT ![id] =
                 [Reject(@, "Request timed out") EXCEPT !.stream = "closed"]]
  /\ UNCHANGED <<devices, passes, registrations, issued, now, last, creation, inflight>>

\* req 'close', after its end or after req.close(): no handler is installed
req_close(id) ==
  /\ \/ calls[id].stream = "open" /\ calls[id].ended
     \/ calls[id].stream = "closed"
  /\ calls' = [calls EXCEPT ![id] = [@ EXCEPT !.stream = "destroyed"]]
  /\ UNCHANGED <<devices, passes, registrations, issued, now, last, creation, inflight>>

\* the transport of a connected session closes without an error: the request
\* closes with it, and 'close' has no handler (socket.on("close", () => {}),
\* client.on("close", () => {}))
socket_close(id) ==
  /\ calls[id].session = "open"
  /\ calls' = [calls EXCEPT ![id] =
                 [@ EXCEPT !.session = "closed",
                           !.stream = IF @ \in {"open", "closed"} THEN "destroyed" ELSE @]]
  /\ UNCHANGED <<devices, passes, registrations, issued, now, last, creation, inflight>>

\* the wall clock advances by a long wait; the clock of the model counts long
\* waits only, the 10 s of the request's timeout are below its resolution
Elapse ==
  /\ now < MaxElapses * ElapseMs
  /\ now' = now + ElapseMs
  /\ UNCHANGED <<devices, passes, registrations, issued, last, calls, creation, inflight>>

\* the devices to notify of a change of a pass: the Device rows registered
\* to it
DevicesRegisteredTo(pass) ==
  {d \in devices : \E r \in registrations : r.deviceId = d.id /\ r.passId = pass.id}

----------------------------------------------------------------------------
(* Specification of the registration protocol: the four endpoints, called   *)
(* by every device for every pass, with a right or a wrong credential       *)

PresentedHeaders == {"ApplePass " \o t : t \in AuthenticationTokens}

Next ==
  \/ \E wallet \in Wallets, key \in PassKeys, authHeader \in PresentedHeaders :
       POST(wallet[1], key[1], key[2], wallet[2], authHeader)
  \/ \E deviceLibraryIdentifier \in DeviceLibraryIdentifiers, key \in PassKeys,
        authHeader \in PresentedHeaders :
       DELETE(deviceLibraryIdentifier, key[1], key[2], authHeader)
  \/ \E deviceLibraryIdentifier \in DeviceLibraryIdentifiers,
        passTypeIdentifier \in PassTypeIdentifiers,
        passesUpdatedSince \in {Omitted, DateString(0)},
        authHeader \in PresentedHeaders :
       GETRegistrations(deviceLibraryIdentifier, passTypeIdentifier,
                        passesUpdatedSince, authHeader)
  \/ \E key \in PassKeys, authHeader \in PresentedHeaders, fetched \in BOOLEAN :
       GETPass(key[1], key[2], authHeader, fetched)

Spec == Init /\ [][Next]_vars

----------------------------------------------------------------------------
(* Specification of pass creation and authentication: passes are created    *)
(* with their own authenticationToken, and one device calls the endpoints   *)
(* that are addressed to a pass                                             *)

AuthWallets == {<<"d1", "k1">>}
AuthPassKeys == {<<"t1", "s1">>, <<"t1", "s2">>}

NextAuth ==
  \/ \E serialNumber \in SerialNumbers, authenticationToken \in AuthenticationTokens :
       createPass(serialNumber, authenticationToken)
  \/ \E wallet \in AuthWallets, key \in AuthPassKeys, authHeader \in AuthHeaders :
       POST(wallet[1], key[1], key[2], wallet[2], authHeader)
  \/ \E wallet \in AuthWallets, key \in AuthPassKeys, authHeader \in AuthHeaders :
       DELETE(wallet[1], key[1], key[2], authHeader)
  \/ \E key \in AuthPassKeys, authHeader \in AuthHeaders, fetched \in BOOLEAN :
       GETPass(key[1], key[2], authHeader, fetched)

SpecAuth == Init /\ [][NextAuth]_vars

----------------------------------------------------------------------------
(* Specification of pass updates: time passes, pass contents change, and    *)
(* one device registers passes and asks for the list of updatable passes    *)

UpdateWallets == {<<"d1", "k1">>}
RightHeader == "ApplePass " \o AUTH_TOKEN

NextUpdates ==
  \/ Tick
  \/ \E pass \in passes : ContentChange(pass)
  \/ \E wallet \in UpdateWallets, key \in PassKeys :
       POST(wallet[1], key[1], key[2], wallet[2], RightHeader)
  \/ \E wallet \in UpdateWallets, passTypeIdentifier \in PassTypeIdentifiers,
        passesUpdatedSince \in SinceValues :
       GETRegistrations(wallet[1], passTypeIdentifier, passesUpdatedSince, RightHeader)

SpecUpdates == Init /\ [][NextUpdates]_vars

----------------------------------------------------------------------------
(* Specification of the life of a pass: time passes, pass contents change,  *)
(* and one device registers and unregisters passes                          *)

NextLifecycle ==
  \/ Tick
  \/ \E pass \in passes : ContentChange(pass)
  \/ \E wallet \in UpdateWallets, key \in PassKeys :
       POST(wallet[1], key[1], key[2], wallet[2], RightHeader)
  \/ \E wallet \in UpdateWallets, key \in PassKeys :
       DELETE(wallet[1], key[1], key[2], RightHeader)

SpecLifecycle == Init /\ [][NextLifecycle]_vars

----------------------------------------------------------------------------
(* The events of the calls of sendApplePushNotification *)

Events(ids) ==
  \E id \in ids :
    \/ client_connect(id)
    \/ client_error(id)
    \/ \E status \in GatewayStatuses : req_response(id, status)
    \/ req_end(id)
    \/ req_error(id)
    \/ req_timeout(id)
    \/ req_close(id)
    \/ socket_close(id)

----------------------------------------------------------------------------
(* Specification of the notification of a device: one device registers for  *)
(* a pass, with its first and then with a new push token, and the devices   *)
(* registered to the pass are notified                                      *)

NotifyWallets == {<<"d1", "k1">>, <<"d1", "k2">>}
NotifyPassKeys == {<<"t1", "s1">>}

NextNotify ==
  \/ \E wallet \in NotifyWallets, key \in NotifyPassKeys :
       POST(wallet[1], key[1], key[2], wallet[2], RightHeader)
  \/ \E id \in CallIds, pass \in passes :
       \E device \in DevicesRegisteredTo(pass) :
         sendApplePushNotification(id, device.pushToken)
  \/ Events(CallIds)

SpecNotify == Init /\ [][NextNotify]_vars

----------------------------------------------------------------------------
(* Specification of the push dispatch: calls of sendApplePushNotification   *)
(* for a push token, the events of the gateway and of the transport, and    *)
(* the passing of time.  The timeout of an open request fires, and a closed *)
(* request is destroyed, unless another event comes first; nothing makes    *)
(* the gateway or the transport act.                                        *)

PushTokens == {"k1"}

NextDispatch ==
  \/ Elapse
  \/ \E id \in CallIds, deviceToken \in PushTokens :
       sendApplePushNotification(id, deviceToken)
  \/ Events(CallIds)

SpecDispatch ==
  /\ Init
  /\ [][NextDispatch]_vars
  /\ \A id \in CallIds : WF_vars(req_timeout(id)) /\ WF_vars(req_close(id))

----------------------------------------------------------------------------
(* Specification of the service next to the dispatcher: one device calls    *)
(* the four endpoints for one pass while a notification of the devices      *)
(* registered to the pass is sent and meets the events of its connection    *)

ServiceWallets == {<<"d1", "k1">>}
ServicePassKeys == {<<"t1", "s1">>}
ServiceCalls == {1}

NextService ==
  \/ \E wallet \in ServiceWallets, key \in ServicePassKeys, authHeader \in PresentedHeaders :
       POST(wallet[1], key[1], key[2], wallet[2], authHeader)
  \/ \E wallet \in ServiceWallets, key \in ServicePassKeys :
       DELETE(wallet[1], key[1], key[2], RightHeader)
  \/ \E wallet \in ServiceWallets, key \in ServicePassKeys :
       GETRegistrations(wallet[1], key[1], Omitted, RightHeader)
  \/ \E key \in ServicePassKeys, fetched \in BOOLEAN :
       GETPass(key[1], key[2], RightHeader, fetched)
  \/ \E id \in ServiceCalls, pass \in passes :
       \E device \in DevicesRegisteredTo(pass) :
         sendApplePushNotification(id, device.pushToken)
  \/ Events(ServiceCalls)

SpecService == Init /\ [][NextService]_vars

----------------------------------------------------------------------------
(* Specification of the reads of a notified device: one device registers    *)
(* passes, time passes, pass contents change, and the device asks for the   *)
(* list of updatable passes and fetches passes, any number of times         *)

NextReads ==
  \/ Elapse
  \/ \E pass \in passes : ContentChange(pass)
  \/ \E wallet \in UpdateWallets, key \in PassKeys :
       POST(wallet[1], key[1], key[2], wallet[2], RightHeader)
  \/ \E wallet \in UpdateWallets, passTypeIdentifier \in PassTypeIdentifiers,
        passesUpdatedSince \in SinceValues :
       GETRegistrations(wallet[1], passTypeIdentifier, passesUpdatedSince, RightHeader)
  \/ \E key \in PassKeys, fetched \in BOOLEAN :
       GETPass(key[1], key[2], RightHeader, fetched)

SpecReads == Init /\ [][NextReads]_vars

----------------------------------------------------------------------------
(* Specification of concurrent registrations: the server handles up to      *)
(* three POST requests of one device for one pass at the same time, each    *)
(* with the push token the device had when it sent the request              *)

RaceWallets == {<<"d1", "k1">>, <<"d1", "k2">>}
RacePassKeys == {<<"t1", "s1">>}

NextRace ==
  \/ \E r \in RequestIds, wallet \in RaceWallets, key \in RacePassKeys,
        authHeader \in PresentedHeaders :
       POST_request(r, wallet[1], key[1], key[2], wallet[2], authHeader)
  \/ \E r \in RequestIds : POST_device(r)
  \/ \E r \in RequestIds : POST_pass(r)
  \/ \E r \in RequestIds : POST_registration(r)

SpecRace == Init /\ [][NextRace]_vars

----------------------------------------------------------------------------
(* Specification of the creation of loyalty passes: LoyaltyPass.createPass  *)
(* of either version is called with every serial number and every value of  *)
(* the properties, and the logo is fetched or not                           *)

NextCreate ==
  \E version \in Versions, serialNumber \in SerialNumbers,
     properties \in LoyaltyPassProperties, logoFetched \in BOOLEAN :
    LoyaltyPass_createPass(version, serialNumber, properties, logoFetched)

SpecCreate == Init /\ [][NextCreate]_vars

----------------------------------------------------------------------------
(* Vocabulary of the properties *)

\* the Registration rows in R that link a device row of D with this
\* deviceLibraryIdentifier to the pass row of P with this key
RegistrationsFor(R, D, P, deviceLibraryIdentifier, passTypeIdentifier, serialNumber) ==
  {r \in R :
     /\ \E d \in D : /\ d.id = r.deviceId
                     /\ d.deviceLibraryIdentifier = deviceLibraryIdentifier
     /\ \E p \in P : /\ p.id = r.passId
                     /\ p.passTypeIdentifier = passTypeIdentifier
                     /\ p.serialNumber = serialNumber}

\* the Registration rows in R of the device rows of D with this identifier
RegistrationsOfDevice(R, D, deviceLibraryIdentifier) ==
  {r \in R : \E d \in D : /\ d.id = r.deviceId
                          /\ d.deviceLibraryIdentifier = deviceLibraryIdentifier}

\* the passes of a type that are registered to a device, in the current store
RegisteredPasses(deviceLibraryIdentifier, passTypeIdentifier) ==
  {p \in passes :
     /\ p.passTypeIdentifier = passTypeIdentifier
     /\ RegistrationsFor(registrations, devices, passes, deviceLibraryIdentifier,
                         p.passTypeIdentifier, p.serialNumber) # {}}

\* the largest of a non-empty set of integers
Largest(ns) == CHOOSE n \in ns : \A m \in ns : m <= n

EndpointOps == {"POST", "DELETE", "GETRegistrations", "GETPass"}

\* a call of sendApplePushNotification begins in this step
Begins(id) == calls[id].pc = "idle" /\ calls'[id].pc # "idle"

\* a request is sent to the gateway in this step
Sends(id) == calls'[id].requests > calls[id].requests

\* what the caller of sendApplePushNotification learns
Outcome(call) ==
  IF call.pc = "returned" THEN "success"
  ELSE IF call.pc = "thrown" /\ call.error = "Request timed out" THEN "timeout"
  ELSE IF call.pc = "thrown" THEN "transport error"
  ELSE "none"

\* the dispatch is over: the connection failed, or the request has emitted
\* its last event, so that no handler of the call runs again
DispatchOver(call) ==
  \/ call.stream = "destroyed"
  \/ call.stream = "none" /\ call.session = "closed"

----------------------------------------------------------------------------
(* C1 *)

\* C1: Register is idempotent. After every authorized Register(D, P) there is
\* exactly one Registration row for (D, P), and the call answers 201 exactly
\* when (D, P) had no Registration before it, 200 otherwise.
C1_RegisterIdempotent ==
  [][(last'.op = "POST" /\ last'.status # 401) =>
       LET before == RegistrationsFor(registrations, devices, passes,
                                      last'.deviceLibraryIdentifier,
                                      last'.passTypeIdentifier, last'.serialNumber)
           after == RegistrationsFor(registrations', devices', passes',
                                     last'.deviceLibraryIdentifier,
                                     last'.passTypeIdentifier, last'.serialNumber)
       IN /\ Cardinality(after) = 1
          /\ last'.status = (IF before = {} THEN 201 ELSE 200)]_vars

----------------------------------------------------------------------------
(* C2 *)

----------------------------------------------------------------------------
(* C3 *)

\* C3: authentication is per pass. A request addressed to a created pass P
\* whose credential is not "ApplePass " followed by the authenticationToken
\* put into P at its creation (the token of another pass, for one) is
\* answered 401.
C3_PerPassAuthentication ==
  (/\ last.op \in {"POST", "DELETE", "GETPass"}
   /\ issued[last.serialNumber] # NotIssued
   /\ last.authHeader # "ApplePass " \o issued[last.serialNumber])
  => last.status = 401

----------------------------------------------------------------------------
(* C4 *)

----------------------------------------------------------------------------
(* C5 *)

\* C5: if device D is registered for the passes P1 and P2, a successful
\* Unregister(D, P1) leaves the (D, P2) Registration in place and a Device
\* row for D.
C5_UnregisterLeavesOtherPass ==
  [][(last'.op = "DELETE" /\ last'.status = 200) =>
       \A key2 \in PassKeys :
         (/\ key2 # <<last'.passTypeIdentifier, last'.serialNumber>>
          /\ RegistrationsFor(registrations, devices, passes,
                              last'.deviceLibraryIdentifier,
                              last'.passTypeIdentifier, last'.serialNumber) # {}
          /\ RegistrationsFor(registrations, devices, passes,
                              last'.deviceLibraryIdentifier, key2[1], key2[2]) # {})
         => /\ RegistrationsFor(registrations', devices', passes',
                                last'.deviceLibraryIdentifier, key2[1], key2[2]) # {}
            /\ \E d \in devices' :
                 d.deviceLibraryIdentifier = last'.deviceLibraryIdentifier]_vars

----------------------------------------------------------------------------
(* C6 *)

\* C6: an authorized Unregister(D, P) when (D, P) has no Registration answers
\* 200, and it removes a Device row exactly when D has a Device row and no
\* Registration at all.
C6_UnregisterAbsent ==
  [][(/\ last'.op = "DELETE"
      /\ last'.authHeader = RightHeader
      /\ RegistrationsFor(registrations, devices, passes,
                          last'.deviceLibraryIdentifier,
                          last'.passTypeIdentifier, last'.serialNumber) = {})
     => /\ last'.status = 200
        /\ (devices' # devices)
             <=> (/\ Devices_find(last'.deviceLibraryIdentifier) # {}
                  /\ RegistrationsOfDevice(registrations, devices,
                                           last'.deviceLibraryIdentifier) = {})]_vars

----------------------------------------------------------------------------
(* C7 *)

\* C7: after an Unregister that answers 200, no Device row of the
\* unregistered device is left without a Registration.
C7_NoDeviceWithoutRegistration ==
  (last.op = "DELETE" /\ last.status = 200)
  => \A d \in Devices_find(last.deviceLibraryIdentifier) :
       \E r \in registrations : r.deviceId = d.id

----------------------------------------------------------------------------
(* C8 *)

\* C8: ListUpdatable filters per pass. For a passesUpdatedSince that is a
\* date, the serial numbers returned (none with 204) are those of the passes
\* of the type registered to the device whose lastUpdateTag is strictly
\* greater than passesUpdatedSince.
C8_FiltersPerPass ==
  (/\ last.op = "GETRegistrations"
   /\ last.status \in {200, 204}
   /\ last.passesUpdatedSince.present
   /\ last.passesUpdatedSince.parses)
  => last.serialNumbers =
       {p.serialNumber :
          p \in {q \in RegisteredPasses(last.deviceLibraryIdentifier,
                                        last.passTypeIdentifier) :
                   q.lastUpdateTag > last.passesUpdatedSince.msec}}

----------------------------------------------------------------------------
(* C9 *)

\* C9: ListUpdatable never answers an error, and never 200 with an empty list
\* of serial numbers: an empty result is answered 204.
C9_EmptyIsNoContent ==
  last.op = "GETRegistrations"
  => /\ last.status \in {200, 204}
     /\ last.status = 200 => last.serialNumbers # {}

----------------------------------------------------------------------------
(* C10 *)

\* C10: when ListUpdatable returns a non-empty list, lastUpdated is the text
\* of the largest lastUpdateTag, in seconds, among the passes whose serial
\* numbers are returned; and with passesUpdatedSince omitted the list holds
\* the serial numbers of all passes of the type registered to the device.
C10_LastUpdatedIsMaximum ==
  (/\ last.op = "GETRegistrations"
   /\ last.status = 200
   /\ last.serialNumbers # {})
  => LET registered == RegisteredPasses(last.deviceLibraryIdentifier,
                                        last.passTypeIdentifier)
         returned == {p \in registered : p.serialNumber \in last.serialNumbers}
     IN /\ last.lastUpdated =
             NumberToString(
               GetTimeSeconds(Largest({p.lastUpdateTag : p \in returned})))
        /\ ~last.passesUpdatedSince.present
             => last.serialNumbers = {p.serialNumber : p \in registered}

\* a list of two passes with different lastUpdateTags was returned
C10_Witness ==
  /\ last.op = "GETRegistrations"
  /\ last.status = 200
  /\ Cardinality(last.serialNumbers) = 2
  /\ \E p, q \in RegisteredPasses(last.deviceLibraryIdentifier,
                                  last.passTypeIdentifier) :
       p.lastUpdateTag < q.lastUpdateTag

----------------------------------------------------------------------------
(* C11 *)

----------------------------------------------------------------------------
(* C12 *)

\* C12: FetchUpdatedPass with the right credential answers 200 with the
\* artifact when the pass (passTypeIdentifier, serialNumber) is known (500
\* only when the stored artifact cannot be fetched), and 404 when it is
\* unknown: never 500 for an unknown pass.
C12_UnknownPassIsNotFound ==
  (last.op = "GETPass" /\ last.authHeader = RightHeader)
  => IF \E p \in passes : /\ p.passTypeIdentifier = last.passTypeIdentifier
                          /\ p.serialNumber = last.serialNumber
     THEN last.status \in {200, 500}
     ELSE last.status = 404

----------------------------------------------------------------------------
(* C13 *)

\* C13: deviceLibraryIdentifier is unique in the Device table: a device that
\* registers again with a different pushToken gets no second Device row.
C13_DeviceLibraryIdentifierUnique ==
  \A d, e \in devices :
    d.deviceLibraryIdentifier = e.deviceLibraryIdentifier => d = e

----------------------------------------------------------------------------
(* C14 *)

\* C14: once a registration of device D carrying a push token has completed
\* (it is the last request served), every notification of D that begins
\* afterwards is addressed to that push token, never to an older one of D.
C14_NewPushTokenSupersedes ==
  [][\A id \in CallIds :
       (/\ Begins(id)
        /\ last.op = "POST"
        /\ last.status \in {200, 201}
        /\ \E d \in Devices_find(last.deviceLibraryIdentifier) :
             calls'[id].path = DevicePath(d.pushToken))
       => calls'[id].path = DevicePath(last.pushToken)]_vars

----------------------------------------------------------------------------
(* C15 *)

\* C15: a dispatch that is over has reported exactly one of three outcomes
\* to its caller: success (a response arrived), timeout (the timeout came
\* before any response) or transport error (an error or a close came before
\* any response); none is left unreported.
C15_ThreeOutcomes ==
  \A id \in CallIds :
    DispatchOver(calls[id])
    => /\ Outcome(calls[id]) \in {"success", "timeout", "transport error"}
       /\ Outcome(calls[id]) = "success" <=> calls[id].responded

----------------------------------------------------------------------------
(* C16 *)

\* C16: every call of the dispatcher eventually completes (returns or
\* throws), whatever the gateway does.
C16_EveryCallCompletes ==
  \A id \in CallIds :
    (calls[id].pc \in {"connectPromise", "responsePromise"})
      ~> (calls[id].pc \in {"returned", "thrown"})

----------------------------------------------------------------------------
(* C17 *)

\* C17: no completed call leaves its session open: when a call has returned
\* or thrown and its dispatch is over (no handler of the call runs again),
\* the session opened for it is closed.
C17_SessionClosed ==
  \A id \in CallIds :
    (calls[id].pc \in {"returned", "thrown"} /\ DispatchOver(calls[id]))
    => calls[id].session = "closed"

----------------------------------------------------------------------------
(* C18 *)

\* C18: the iat of the provider token of a call is the time, in seconds, at
\* which the call signs it, and no request is sent to the gateway more than
\* 3600 seconds after the iat of the token it carries.
C18_ProviderTokenFresh ==
  [][\A id \in CallIds :
       /\ Begins(id) => calls'[id].iat = now \div 1000
       /\ Sends(id) => (now \div 1000) - calls'[id].iat <= 3600]_vars

----------------------------------------------------------------------------
(* C20 *)

\* C20: when the request of a dispatch times out before any response, the
\* timeout is not raised to the caller: after a first timeout the dispatch
\* goes on to one more attempt, after the second it ends without throwing;
\* and no dispatch sends more than two requests.
C20_TimeoutRetriedNotRaised ==
  [][\A id \in CallIds :
       /\ calls'[id].requests <= 2
       /\ (/\ calls[id].pc = "responsePromise"
           /\ calls[id].stream = "open"
           /\ calls'[id].stream = "closed")
          => /\ calls'[id].pc # "thrown"
             /\ calls[id].requests < 2
                  => calls'[id].pc \in {"connectPromise", "responsePromise"}]_vars

----------------------------------------------------------------------------
(* C21 *)

\* the Registration rows of the Device rows whose push token a path names
RegistrationsOfPath(path) ==
  {r \in registrations :
     \E d \in devices : d.id = r.deviceId /\ DevicePath(d.pushToken) = path}

\* C21: when the gateway answers a dispatch that the device token is not
\* valid any more, the dispatch is not reported as a success, it has sent its
\* one request and sends no other, and no Registration row is left for the
\* device that the request was addressed to.
C21_DeadTokenCleanedUp ==
  \A id \in CallIds :
    calls[id].status = 410
      => /\ Outcome(calls[id]) # "success"
         /\ calls[id].requests = 1
         /\ RegistrationsOfPath(calls[id].path) = {}

----------------------------------------------------------------------------
(* C22 *)

\* a request was answered in this step
Answers == last' # last \/ store' # store

\* C22: no endpoint sends a notification or touches a dispatch, no step of a
\* dispatch changes the store or the answer of a request, and the answer to
\* Register is decided by the credential and the Registration rows alone:
\* 401 for a wrong credential, else 201 exactly when no Registration row
\* linked the Device row to the Pass row before the call.
C22_EndpointsApartFromDispatch ==
  [][/\ Answers => calls' = calls
     /\ calls' # calls => last' = last /\ store' = store
     /\ (Answers /\ last'.op = "POST")
          => last'.status =
               IF last'.authHeader # RightHeader THEN 401
               ELSE IF \E r \in registrations :
                         /\ r.deviceId = PrimaryKey(<<last'.deviceLibraryIdentifier,
                                                      last'.pushToken>>)
                         /\ r.passId = PrimaryKey(<<last'.passTypeIdentifier,
                                                    last'.serialNumber>>)
                    THEN 200 ELSE 201]_vars

\* the device was unregistered while the request of a dispatch to it was
\* waiting for the response of the gateway
C22_Witness ==
  /\ last.op = "DELETE"
  /\ last.status = 200
  /\ calls[1].pc = "responsePromise"
  /\ calls[1].stream = "open"

----------------------------------------------------------------------------
(* C23 *)

\* C23: every request the dispatcher has sent is a POST to the path
\* /3/device/{pushToken} of a Device row, with apns-push-type background, and
\* its apns-topic is the passTypeIdentifier of a pass of the store.
C23_RequestHeaders ==
  \A id \in CallIds :
    calls[id].requests > 0
      => /\ calls[id].method = "POST"
         /\ \E d \in devices : calls[id].path = DevicePath(d.pushToken)
         /\ calls[id].pushType = "background"
         /\ \E p \in passes : calls[id].topic = p.passTypeIdentifier

----------------------------------------------------------------------------
(* C24 *)

\* the requests that went through the registration and were answered
Registered == {r \in RequestIds : inflight[r].status \in {200, 201}}

\* C24: when every POST request of a device for a pass that the server
\* received is answered, the store holds one Device row of the device, one
\* Pass row of the pass and one Registration row between them, and at most
\* one of the requests was answered 201.
C24_ConcurrentRegisterOnce ==
  (/\ Registered # {}
   /\ \A r \in RequestIds : inflight[r].pc \in {"idle", "responded"})
    => \A wallet \in RaceWallets, key \in RacePassKeys :
         /\ Cardinality(Devices_find(wallet[1])) = 1
         /\ Cardinality({p \in passes : /\ p.passTypeIdentifier = key[1]
                                        /\ p.serialNumber = key[2]}) = 1
         /\ Cardinality(RegistrationsFor(registrations, devices, passes,
                                         wallet[1], key[1], key[2])) = 1
         /\ Cardinality({r \in RequestIds : inflight[r].status = 201}) <= 1

----------------------------------------------------------------------------
(* C25 *)

ReadOps == {"GETRegistrations", "GETPass"}

\* two requests are the same request
SameRequest(a, b) ==
  /\ a.op = b.op
  /\ a.deviceLibraryIdentifier = b.deviceLibraryIdentifier
  /\ a.passTypeIdentifier = b.passTypeIdentifier
  /\ a.serialNumber = b.serialNumber
  /\ a.authHeader = b.authHeader
  /\ a.passesUpdatedSince = b.passesUpdatedSince

\* C25: a request for the list of updatable passes or for a pass changes
\* nothing in the store, and when it repeats the request before it, with no
\* registration and no content change in between and whatever time has
\* passed, it gets the same answer, unless the pass file could not be
\* fetched one of the two times.
C25_ReadsRepeat ==
  [][(last'.op \in ReadOps /\ last' # last)
       => /\ UNCHANGED <<devices, passes, registrations, issued, now>>
          /\ SameRequest(last, last') => 500 \in {last.status, last'.status}]_vars

\* the device was given the serial number of a pass that changed, and time
\* has passed since that change
C25_Witness ==
  /\ last.op = "GETRegistrations"
  /\ last.status = 200
  /\ \E p \in passes : /\ p.serialNumber \in last.serialNumbers
                       /\ 0 < p.lastUpdateTag
                       /\ p.lastUpdateTag < now

----------------------------------------------------------------------------
(* C26 *)

\* C26: once sendApplePushNotification has returned or thrown, no event of
\* the session or of the request changes what it reported: neither whether
\* it returned or threw, nor the error it threw.
C26_OutcomeSettledOnce ==
  [][\A id \in CallIds :
       calls[id].pc \in {"returned", "thrown"}
         => /\ calls'[id].pc = calls[id].pc
            /\ calls'[id].error = calls[id].error]_vars

\* the request failed, or timed out and was closed, after the response had
\* made the call return: the call still reports the success
C26_Witness ==
  \E id \in CallIds :
    /\ calls[id].pc = "returned"
    /\ calls[id].responded
    /\ ~calls[id].ended
    /\ calls[id].session = "open"
    /\ calls[id].stream = "destroyed"

----------------------------------------------------------------------------
(* C27 *)

\* C27: a call of LoyaltyPass.createPass whose logo was fetched writes the
\* pass file, whatever the passType, and the file has the points field among
\* its auxiliary fields exactly when the passType is PassTypeEnum.POINTS.
C27_CreatePassCompletes ==
  creation.outcome \notin {"none", "AxiosError"}
    => /\ creation.outcome = "written"
       /\ creation.file.serialNumber = creation.serialNumber
       /\ (\E i \in DOMAIN creation.file.auxiliaryFields :
             creation.file.auxiliaryFields[i].key = "points")
          <=> creation.properties.passType = PassTypeEnum.POINTS

====
